---- MODULE Spec2Model ----
(***************************************************************************)
(* NumList: NumberListManager (src/src/numlist/manager.py), a store of     *)
(* unique positive integers kept in one SQLite table                       *)
(*     numbers(number INTEGER PRIMARY KEY,                                 *)
(*             added_at TIMESTAMP DEFAULT CURRENT_TIMESTAMP).              *)
(* The table is a set of rows [number, added_at]; every method opens a     *)
(* connection, runs one statement and commits.  CURRENT_TIMESTAMP has a    *)
(* resolution of one second: it is the variable now, advanced by Tick.     *)
(***************************************************************************)
EXTENDS Integers, Sequences, FiniteSets, TLC

\* Largest integer a caller passes to the store.
MaxValue == 5
\* How many integers <= 0 a caller passes, beside the positive ones: 0 and
\* the NonPositive integers below it.
NonPositive == 1
\* Last second the clock of CURRENT_TIMESTAMP reaches.
MaxClock == 1

\* Longest list of numbers one add command is given.
MaxBatch == 3

\* Largest number, and most rows, of the stores that are exported.
MaxExportValue == 11
MaxExportRows == 2

Inputs == (0 - NonPositive)..MaxValue

VARIABLES
    table_exists,   \* whether the database file holds the table numbers
    numbers,        \* the rows of the table numbers
    now,            \* the second CURRENT_TIMESTAMP reads
    last,           \* the last call on a manager: its name, argument, outcome
    conn,           \* per concurrent caller: where its add_number stands
    lock,           \* the caller holding the write lock of the file, 0: none
    run,            \* the command in progress: where it stands, its locals
    file            \* the file the last export wrote

vars == <<table_exists, numbers, now, last, conn, lock, run, file>>

\* The callers that use the same database file at the same time.
Procs == {1, 2}

None == <<>>
Some(v) == <<v>>

\* ------------------------------------------------------------------ SQL

Row(n, t) == [number |-> n, added_at |-> t]

HasKey(rows, n) == \E r \in rows : r.number = n

\* INSERT that overwrites the row of the key (INSERT OR REPLACE).
InsertOrReplace(rows, n, t) ==
    [integrity_error |-> HasKey(rows, n),
     rows |-> {r \in rows : r.number # n} \cup {Row(n, t)}]

\* INSERT INTO numbers (number) VALUES (n): number is the PRIMARY KEY, so a
\* row with the same number makes the statement fail (IntegrityError);
\* added_at takes its default, CURRENT_TIMESTAMP.
Insert(rows, n, t) ==
    IF HasKey(rows, n)
    THEN [integrity_error |-> TRUE, rows |-> rows]
    ELSE [integrity_error |-> FALSE, rows |-> rows \cup {Row(n, t)}]

\* DELETE that reports a row also when none matched.
DeleteAlwaysCounts(rows, n) ==
    [rowcount |-> 1, rows |-> {r \in rows : r.number # n}]

\* DELETE with <= for = in its WHERE clause.
DeleteUpTo(rows, n) ==
    [rowcount |-> Cardinality({r \in rows : r.number <= n}),
     rows |-> {r \in rows : r.number > n}]

\* DELETE FROM numbers WHERE number = n, with the cursor's rowcount.
Delete(rows, n) ==
    [rowcount |-> Cardinality({r \in rows : r.number = n}),
     rows |-> {r \in rows : r.number # n}]

\* DELETE that leaves the row of the largest number.
DeleteAllButLast(rows) ==
    [rowcount |-> IF rows = {} THEN 0 ELSE Cardinality(rows) - 1,
     rows |-> {r \in rows : \A q \in rows : r.number >= q.number}]

\* DELETE FROM numbers, with the cursor's rowcount.
DeleteAll(rows) == [rowcount |-> Cardinality(rows), rows |-> {}]

\* CREATE TABLE that drops the rows of a table already there.
CreateTableAnew(exists, rows) == {}

\* CREATE TABLE IF NOT EXISTS numbers (...): a table already there is kept
\* with its rows.
CreateTableIfNotExists(exists, rows) == IF exists THEN rows ELSE {}

\* The rows in the order of their added_at, ties by number: the i-th is the
\* row that i - 1 rows precede.
OrderByAddedAt(rows) ==
    [i \in 1..Cardinality(rows) |->
        CHOOSE r \in rows :
            Cardinality({q \in rows :
                \/ q.added_at < r.added_at
                \/ q.added_at = r.added_at /\ q.number < r.number}) = i - 1]

\* ... ORDER BY number: the rows in ascending order of number (rows of the
\* same number, which the primary key excludes, in the order of added_at).
OrderByNumber(rows) ==
    [i \in 1..Cardinality(rows) |->
        CHOOSE r \in rows :
            Cardinality({q \in rows :
                \/ q.number < r.number
                \/ q.number = r.number /\ q.added_at < r.added_at}) = i - 1]

RECURSIVE SumFirst(_, _)
SumFirst(seq, k) ==
    IF k = 0 THEN 0 ELSE seq[k].number + SumFirst(seq, k - 1)

\* SUM(number): the numbers of all rows added up.
SumOf(rows) == SumFirst(OrderByNumber(rows), Cardinality(rows))

RECURSIVE Gcd(_, _)
Gcd(a, b) == IF b = 0 THEN a ELSE Gcd(b, a % b)

\* AVG(number) with an integer division.
AvgTruncated(sum, count) == [num |-> sum \div count, den |-> 1]

\* AVG(number): the sum over the count as a real number, here the fraction
\* num/den in lowest terms (3.25 is 13/4).
Avg(sum, count) ==
    [num |-> sum \div Gcd(sum, count), den |-> count \div Gcd(sum, count)]

\* ------------------------------------------------------------ the queries

\* has_number(n): SELECT 1 FROM numbers WHERE number = n.
has_number(n) == HasKey(numbers, n)

\* get_all_numbers() in the order of insertion.
get_all_numbers_unordered ==
    LET rows == OrderByAddedAt(numbers)
    IN  [i \in 1..Len(rows) |-> rows[i].number]

\* get_all_numbers(): SELECT number FROM numbers ORDER BY number.
get_all_numbers ==
    LET rows == OrderByNumber(numbers)
    IN  [i \in 1..Len(rows) |-> rows[i].number]

\* get_numbers_with_timestamps() in the order of insertion.
get_numbers_with_timestamps_unordered == OrderByAddedAt(numbers)

\* get_numbers_with_timestamps(): SELECT number, added_at FROM numbers
\* ORDER BY number, each row a dictionary with the keys number and added_at.
get_numbers_with_timestamps == OrderByNumber(numbers)

\* get_stats(): COUNT(*), MIN, MAX, SUM and AVG of number; None for all but
\* the count when the count is 0.
get_stats ==
    IF Cardinality(numbers) = 0
    THEN [count |-> 0, min |-> None, max |-> None, sum |-> None,
          average |-> None]
    ELSE [count   |-> Cardinality(numbers),
          min     |-> Some(CHOOSE m \in {r.number : r \in numbers} :
                               \A r \in numbers : m <= r.number),
          max     |-> Some(CHOOSE m \in {r.number : r \in numbers} :
                               \A r \in numbers : m >= r.number),
          sum     |-> Some(SumOf(numbers)),
          average |-> Some(Avg(SumOf(numbers), Cardinality(numbers)))]

\* is_empty(): SELECT COUNT(*) FROM numbers, compared with 0.
is_empty == Cardinality(numbers) = 0

\* ------------------------------------------------------------ the actions

\* A call's record: the method, its argument, the exception it raised
\* ("none" when it returned) and what it returned.  rowcount is the
\* cursor's rowcount after a DELETE (0 for the other calls).  prior is kept
\* for the record only: the added_at of the row of arg that was deleted, by
\* this call (remove_number) or by the call just before it (an add_number
\* that follows the remove_number of the same number).
Call(op, arg, exc, ret) ==
    [op |-> op, arg |-> arg, exc |-> exc, ret |-> ret, rowcount |-> 0,
     prior |-> None]

\* The added_at of the row of n.
AddedAt(rows, n) == (CHOOSE r \in rows : r.number = n).added_at

\* The guard of add_number with < for <=.
InvalidNegative(n) == n < 0

\* add_number's guard: the numbers it refuses with ValueError.
Invalid(n) == n <= 0

\* No command is in progress.
NoRun == [pc |-> "none"]

\* No export has written a file.
NoFile == [format |-> "none"]

\* A caller that is in no call.
Idle == [pc |-> "idle", arg |-> 0, exc |-> "none", ret |-> FALSE,
         fresh |-> FALSE, at |-> 0]

\* The first NumberListManager(db_file) of a new file has been constructed:
\* __init__ has run _init_database, which created the empty table.
Init ==
    /\ table_exists = TRUE
    /\ numbers = CreateTableIfNotExists(FALSE, {})
    /\ now = 0
    /\ last = Call("init_database", 0, "none", FALSE)
    /\ conn = [p \in Procs |-> Idle]
    /\ lock = 0
    /\ run = NoRun
    /\ file = NoFile

\* NumberListManager(db_file) once more on the same file (every CLI command
\* and every REPL session constructs one): __init__ runs _init_database.
init_database ==
    /\ numbers' = CreateTableIfNotExists(table_exists, numbers)
    /\ table_exists' = TRUE
    /\ last' = Call("init_database", 0, "none", FALSE)
    /\ UNCHANGED <<now, conn, lock, run, file>>

\* One second passes.
Tick ==
    /\ now < MaxClock
    /\ now' = now + 1
    /\ last' = Call("tick", 0, "none", FALSE)
    /\ UNCHANGED <<table_exists, numbers, conn, lock, run, file>>

add_number(n) ==
    /\ table_exists
    /\ IF Invalid(n)
       THEN /\ last' = Call("add_number", n, "ValueError", FALSE)
            /\ UNCHANGED numbers
       ELSE LET ins == Insert(numbers, n, now)
            IN  /\ numbers' = ins.rows
                /\ last' = [Call("add_number", n, "none",
                                 ~ins.integrity_error)
                               EXCEPT !.prior =
                                   IF /\ last.op = "remove_number"
                                      /\ last.arg = n
                                   THEN last.prior ELSE None]
    /\ UNCHANGED <<table_exists, now, conn, lock, run, file>>

remove_number(n) ==
    /\ table_exists
    /\ LET del == Delete(numbers, n)
       IN  /\ numbers' = del.rows
           /\ last' = [Call("remove_number", n, "none", del.rowcount > 0)
                         EXCEPT !.rowcount = del.rowcount,
                                !.prior = IF HasKey(numbers, n)
                                          THEN Some(AddedAt(numbers, n))
                                          ELSE None]
    /\ UNCHANGED <<table_exists, now, conn, lock, run, file>>

clear_all ==
    /\ table_exists
    /\ LET del == DeleteAll(numbers)
       IN  /\ numbers' = del.rows
           /\ last' = [Call("clear_all", 0, "none", TRUE)
                         EXCEPT !.rowcount = del.rowcount]
    /\ UNCHANGED <<table_exists, now, conn, lock, run, file>>

\* A query: the table is read and the result returned.
Query(op, arg, ret) ==
    /\ table_exists
    /\ last' = Call(op, arg, "none", ret)
    /\ UNCHANGED <<table_exists, numbers, now, conn, lock, run, file>>

call_has_number(n) == Query("has_number", n, has_number(n))

call_get_all_numbers == Query("get_all_numbers", 0, get_all_numbers)

call_get_numbers_with_timestamps ==
    Query("get_numbers_with_timestamps", 0, get_numbers_with_timestamps)

call_get_stats == Query("get_stats", 0, get_stats)

call_is_empty == Query("is_empty", 0, is_empty)

Next ==
    \/ init_database
    \/ Tick
    \/ \E n \in Inputs : add_number(n)
    \/ \E n \in Inputs : remove_number(n)
    \/ clear_all
    \/ \E n \in Inputs : call_has_number(n)
    \/ call_get_all_numbers
    \/ call_get_numbers_with_timestamps
    \/ call_get_stats
    \/ call_is_empty

Spec == Init /\ [][Next]_vars

\* --------------------------------------------- two callers, one database file
\* add_number step by step, as two processes run it on the same file.  Each
\* opens its own connection (sqlite3.connect, busy timeout 5 s).  Executing
\* the INSERT starts a write transaction: it needs the file's write lock
\* (SQLite's RESERVED lock), held until the commit or the rollback that ends
\* the with-block.  A caller that finds the lock taken waits; when its wait
\* outlasts the timeout, execute raises OperationalError (database is
\* locked), which add_number does not catch.

\* A write lock that every connection is granted.
CanReserveUnlocked(lk, p) == TRUE

\* Whether the connection of p is granted the write lock.
CanReserve(lk, p) == lk = 0

\* The stores the callers may find: the values of S, all inserted at 0.
StoreOf(S) == {Row(n, 0) : n \in S}

ConcInit ==
    /\ table_exists = TRUE
    /\ numbers \in {StoreOf(S) : S \in SUBSET (1..MaxValue)}
    /\ now = 0
    /\ last = Call("init_database", 0, "none", FALSE)
    /\ conn = [p \in Procs |-> Idle]
    /\ lock = 0
    /\ run = NoRun
    /\ file = NoFile

\* p calls add_number(n): the guard on n, before any connection is opened.
c_call(p, n) ==
    /\ conn[p].pc = "idle"
    /\ conn' = [conn EXCEPT ![p] =
           IF Invalid(n)
           THEN [Idle EXCEPT !.pc = "done", !.arg = n, !.exc = "ValueError"]
           ELSE [Idle EXCEPT !.pc = "execute", !.arg = n,
                             !.fresh = ~HasKey(numbers, n)]]
    /\ UNCHANGED <<table_exists, numbers, now, last, lock, run, file>>

\* cursor.execute("INSERT ..."): p takes the write lock and the statement
\* runs against the committed table; on a duplicate key it fails.
c_execute(p) ==
    /\ conn[p].pc = "execute"
    /\ CanReserve(lock, p)
    /\ lock' = p
    /\ conn' = [conn EXCEPT ![p] =
           IF Insert(numbers, conn[p].arg, now).integrity_error
           THEN [@ EXCEPT !.pc = "rollback"]
           ELSE [@ EXCEPT !.pc = "commit", !.at = now]]
    /\ UNCHANGED <<table_exists, numbers, now, last, run, file>>

\* cursor.execute while another connection holds the write lock, and the
\* busy timeout runs out: OperationalError leaves add_number.
c_busy(p) ==
    /\ conn[p].pc = "execute"
    /\ lock \notin {0, p}
    /\ conn' = [conn EXCEPT ![p] =
           [@ EXCEPT !.pc = "done", !.exc = "OperationalError"]]
    /\ UNCHANGED <<table_exists, numbers, now, last, lock, run, file>>

\* conn.commit() and return True: the inserted row becomes part of the
\* table and the lock is given up.
c_commit(p) ==
    /\ conn[p].pc = "commit"
    /\ numbers' = numbers \cup {Row(conn[p].arg, conn[p].at)}
    /\ lock' = IF lock = p THEN 0 ELSE lock
    /\ conn' = [conn EXCEPT ![p] = [@ EXCEPT !.pc = "done", !.ret = TRUE]]
    /\ UNCHANGED <<table_exists, now, last, run, file>>

\* except sqlite3.IntegrityError: the with-block rolls the transaction back
\* (the lock is given up) and add_number returns False.
c_rollback(p) ==
    /\ conn[p].pc = "rollback"
    /\ lock' = IF lock = p THEN 0 ELSE lock
    /\ conn' = [conn EXCEPT ![p] = [@ EXCEPT !.pc = "done", !.ret = FALSE]]
    /\ UNCHANGED <<table_exists, numbers, now, last, run, file>>

c_tick ==
    /\ now < MaxClock
    /\ now' = now + 1
    /\ UNCHANGED <<table_exists, numbers, last, conn, lock, run, file>>

ConcNext ==
    \/ \E p \in Procs, n \in Inputs : c_call(p, n)
    \/ \E p \in Procs : c_execute(p)
    \/ \E p \in Procs : c_busy(p)
    \/ \E p \in Procs : c_commit(p)
    \/ \E p \in Procs : c_rollback(p)
    \/ c_tick

ConcSpec == ConcInit /\ [][ConcNext]_vars

\* ------------------------------------------- a write, statement and commit
\* add_number, remove_number and clear_all each open a connection, execute
\* one statement inside a transaction and commit.  Until the commit the
\* statement's effect is the transaction's own (run.work); the file holds
\* the committed table.  A storage error (disk full, I/O error) raised by
\* execute or commit leaves the with-block as an exception, which rolls the
\* transaction back; a process that dies leaves a journal from which the
\* next connection restores the committed table.

\* A failed or abandoned transaction that leaves its changes in the file.
RollbackKeepsWork(rows, work) == work

\* The table of the file after a transaction that did not commit.
Rollback(rows, work) == rows

\* The table of the file after conn.commit().
Commit(rows, work) == work

\* No transaction is open.
NoTxn == [pc |-> "idle", op |-> "none", arg |-> 0, work |-> {}, rowcount |-> 0]

\* The transaction of op(arg) after its statement ran.
Txn(op, arg, res) ==
    [pc |-> "open", op |-> op, arg |-> arg, work |-> res.rows,
     rowcount |-> res.rowcount]

AtomInit ==
    /\ table_exists = TRUE
    /\ numbers \in {StoreOf(S) : S \in SUBSET (1..MaxValue)}
    /\ now = 0
    /\ last = Call("init_database", 0, "none", FALSE)
    /\ conn = [p \in Procs |-> Idle]
    /\ lock = 0
    /\ run = NoTxn
    /\ file = NoFile

\* add_number(n) up to its INSERT: ValueError for n <= 0, False and a
\* rollback on IntegrityError, else the row is in the open transaction.
t_add_number(n) ==
    /\ run.pc = "idle"
    /\ IF Invalid(n)
       THEN /\ last' = Call("add_number", n, "ValueError", FALSE)
            /\ UNCHANGED <<numbers, run>>
       ELSE LET ins == Insert(numbers, n, now)
            IN  IF ins.integrity_error
                THEN /\ last' = Call("add_number", n, "none", FALSE)
                     /\ numbers' = Rollback(numbers, ins.rows)
                     /\ UNCHANGED run
                ELSE /\ run' = Txn("add_number", n,
                                   [rows |-> ins.rows, rowcount |-> 1])
                     /\ UNCHANGED <<numbers, last>>
    /\ UNCHANGED <<table_exists, now, conn, lock, file>>

\* remove_number(n) up to its DELETE.
t_remove_number(n) ==
    /\ run.pc = "idle"
    /\ run' = Txn("remove_number", n, Delete(numbers, n))
    /\ UNCHANGED <<table_exists, numbers, now, last, conn, lock, file>>

\* clear_all() up to its DELETE.
t_clear_all ==
    /\ run.pc = "idle"
    /\ run' = Txn("clear_all", 0, DeleteAll(numbers))
    /\ UNCHANGED <<table_exists, numbers, now, last, conn, lock, file>>

\* conn.commit() and the return: True for add_number and clear_all,
\* rowcount > 0 for remove_number.
t_commit ==
    /\ run.pc = "open"
    /\ numbers' = Commit(numbers, run.work)
    /\ last' = [Call(run.op, run.arg, "none",
                     IF run.op = "remove_number" THEN run.rowcount > 0
                     ELSE TRUE)
                  EXCEPT !.rowcount = run.rowcount]
    /\ run' = NoTxn
    /\ UNCHANGED <<table_exists, now, conn, lock, file>>

\* The commit raises a storage error: the transaction is rolled back.
\* add_number and remove_number let the sqlite3.Error pass to the caller;
\* clear_all catches every Exception and returns False.
t_error ==
    /\ run.pc = "open"
    /\ numbers' = Rollback(numbers, run.work)
    /\ last' = IF run.op = "clear_all"
               THEN Call("clear_all", 0, "none", FALSE)
               ELSE Call(run.op, run.arg, "sqlite3.Error", FALSE)
    /\ run' = NoTxn
    /\ UNCHANGED <<table_exists, now, conn, lock, file>>

\* The process dies before the commit; nothing returns.
t_crash ==
    /\ run.pc = "open"
    /\ numbers' = Rollback(numbers, run.work)
    /\ last' = Call("crash", run.arg, "none", FALSE)
    /\ run' = NoTxn
    /\ UNCHANGED <<table_exists, now, conn, lock, file>>

t_tick ==
    /\ now < MaxClock
    /\ now' = now + 1
    /\ UNCHANGED <<table_exists, numbers, last, conn, lock, run, file>>

AtomNext ==
    \/ \E n \in Inputs : t_add_number(n)
    \/ \E n \in Inputs : t_remove_number(n)
    \/ t_clear_all
    \/ t_commit
    \/ t_error
    \/ t_crash
    \/ t_tick

AtomSpec == AtomInit /\ [][AtomNext]_vars

\* ------------------------------------------------- the CLI command add
\* numlist add n1 n2 ...: a manager is constructed, then the numbers are
\* taken one by one.  run.prior is kept for the record: the table the
\* command found.

\* add_number(n) as its caller sees it: the exception or the result, and
\* the table afterwards.
AddNumber(rows, n, t) ==
    IF Invalid(n)
    THEN [exc |-> "ValueError", ret |-> FALSE, rows |-> rows]
    ELSE LET ins == Insert(rows, n, t)
         IN  [exc |-> "none", ret |-> ~ins.integrity_error, rows |-> ins.rows]

\* The loop body with break for continue: the first invalid number ends it.
add_item_abort(b, rows, t) ==
    LET number == b.numbers[b.i]
        res == AddNumber(rows, number, t)
    IN  IF number <= 0
        THEN [run |-> [b EXCEPT !.i = Len(b.numbers) + 1,
                                !.invalid = Append(@, number)],
              rows |-> rows]
        ELSE IF res.ret
        THEN [run |-> [b EXCEPT !.i = @ + 1, !.added_count = @ + 1],
              rows |-> res.rows]
        ELSE [run |-> [b EXCEPT !.i = @ + 1,
                                !.duplicates = Append(@, number)],
              rows |-> res.rows]

\* The body of the loop for number in numbers, on the item b.i.
add_item(b, rows, t) ==
    LET number == b.numbers[b.i]
        res == AddNumber(rows, number, t)
    IN  IF number <= 0
        THEN [run |-> [b EXCEPT !.i = @ + 1, !.invalid = Append(@, number)],
              rows |-> rows]
        ELSE IF res.exc = "ValueError"
        THEN [run |-> [b EXCEPT !.i = @ + 1, !.invalid = Append(@, number)],
              rows |-> res.rows]
        ELSE IF res.ret
        THEN [run |-> [b EXCEPT !.i = @ + 1, !.added_count = @ + 1],
              rows |-> res.rows]
        ELSE [run |-> [b EXCEPT !.i = @ + 1,
                                !.duplicates = Append(@, number)],
              rows |-> res.rows]

\* The lists of numbers a command is given: typer requires one at least.
Batches == UNION {[1..k -> Inputs] : k \in 1..MaxBatch}

BatchInit ==
    /\ table_exists = TRUE
    /\ numbers \in {StoreOf(S) : S \in SUBSET (1..MaxValue)}
    /\ now = 0
    /\ last = Call("init_database", 0, "none", FALSE)
    /\ conn = [p \in Procs |-> Idle]
    /\ lock = 0
    /\ run \in {[pc |-> "loop", numbers |-> L, i |-> 1, added_count |-> 0,
                  duplicates |-> <<>>, invalid |-> <<>>, prior |-> numbers]
                    : L \in Batches}
    /\ file = NoFile

\* One turn of the loop; after the last item the summary is printed.
cli_add_item ==
    /\ run.pc = "loop"
    /\ run.i <= Len(run.numbers)
    /\ LET step == add_item(run, numbers, now)
       IN  /\ numbers' = step.rows
           /\ run' = IF step.run.i > Len(run.numbers)
                      THEN [step.run EXCEPT !.pc = "done"]
                      ELSE step.run
    /\ UNCHANGED <<table_exists, now, last, conn, lock, file>>

\* A second passes while the command runs.
cli_add_tick ==
    /\ run.pc = "loop"
    /\ now < MaxClock
    /\ now' = now + 1
    /\ UNCHANGED <<table_exists, numbers, last, conn, lock, run, file>>

BatchNext == cli_add_item \/ cli_add_tick

BatchSpec == BatchInit /\ [][BatchNext]_vars

\* ------------------------------------------------------------ the exports
\* The export_to_* methods read the table with the queries above and write
\* a file.  A text file holds a number as its decimal digits; a timestamp
\* is written here as the digits of its second.

RECURSIVE ToDecimalLastDigit(_)
\* str(n) that keeps the last digit only.
ToDecimalLastDigit(n) == <<n % 10>>

RECURSIVE ToDecimal(_)
\* str(n) of an integer n >= 0: its decimal digits.
ToDecimal(n) ==
    IF n < 10 THEN <<n>> ELSE Append(ToDecimal(n \div 10), n % 10)

RECURSIVE FromDecimal(_)
\* int(d) of a sequence of decimal digits.
FromDecimal(d) ==
    IF Len(d) = 0 THEN 0
    ELSE 10 * FromDecimal(SubSeq(d, 1, Len(d) - 1)) + d[Len(d)]

\* A CSV or TSV file: the header line and one line for each row.  pandas
\* writes the columns of the DataFrame, and DataFrame([]) has none.
TextFile(format, pandas, include_timestamps, data) ==
    [format |-> format,
     header |-> IF include_timestamps
                THEN IF pandas /\ Len(data) = 0
                     THEN <<>> ELSE <<"number", "added_at">>
                ELSE <<"number">>,
     lines  |-> IF include_timestamps
                THEN [i \in 1..Len(data) |->
                        <<ToDecimal(data[i].number),
                          ToDecimal(data[i].added_at)>>]
                ELSE [i \in 1..Len(data) |-> <<ToDecimal(data[i])>>]]

\* The JSON file: "numbers", a list of integers or of objects, and "stats".
JsonFile(include_timestamps, data, stats) ==
    [format |-> "json",
     include_timestamps |-> include_timestamps,
     numbers |-> IF include_timestamps
                 THEN [i \in 1..Len(data) |->
                         [number   |-> ToDecimal(data[i].number),
                          added_at |-> ToDecimal(data[i].added_at)]]
                 ELSE [i \in 1..Len(data) |-> ToDecimal(data[i])],
     stats |-> stats]

\* The pickle file: the dictionary itself.
PickleFile(nums, nums_ts, stats) ==
    [format |-> "pickle", numbers |-> nums,
     numbers_with_timestamps |-> nums_ts, stats |-> stats]

\* The workbook (sheets Numbers and Statistics) or the Parquet table.
FrameFile(format, data, stats) ==
    [format |-> format, numbers |-> data, stats |-> stats]

\* What the table holds, as the export asks for it.
DataOf(include_timestamps) ==
    IF include_timestamps THEN get_numbers_with_timestamps
    ELSE get_all_numbers

\* An export that empties the table it has read.
ExportClearing(op, ok, f) ==
    /\ table_exists
    /\ last' = Call(op, 0, "none", ok)
    /\ file' = IF ok THEN f ELSE file
    /\ numbers' = {}
    /\ UNCHANGED <<table_exists, now, conn, lock, run>>

\* An export: the file is written and True returned, or an exception
\* (the file cannot be written) is caught and False returned.
Export(op, ok, f) ==
    /\ table_exists
    /\ last' = Call(op, 0, "none", ok)
    /\ file' = IF ok THEN f ELSE file
    /\ UNCHANGED <<table_exists, numbers, now, conn, lock, run>>

export_to_csv(include_timestamps, ok) ==
    Export("export_to_csv", ok,
           TextFile("csv", run.pandas, include_timestamps,
                    DataOf(include_timestamps)))

export_to_tsv(include_timestamps, ok) ==
    Export("export_to_tsv", ok,
           TextFile("tsv", run.pandas, include_timestamps,
                    DataOf(include_timestamps)))

export_to_json(include_timestamps, ok) ==
    Export("export_to_json", ok,
           JsonFile(include_timestamps, DataOf(include_timestamps),
                    get_stats))

export_to_pickle(ok) ==
    Export("export_to_pickle", ok,
           PickleFile(get_all_numbers, get_numbers_with_timestamps,
                      get_stats))

\* Without pandas False is returned at once.
export_to_excel(include_timestamps, ok) ==
    Export("export_to_excel", run.pandas /\ ok,
           FrameFile("excel", DataOf(include_timestamps), get_stats))

\* Without pandas False is returned at once; df['added_at'] of a frame
\* with no columns raises KeyError, which is caught.
export_to_parquet(include_timestamps, ok) ==
    Export("export_to_parquet",
           /\ run.pandas
           /\ ok
           /\ ~(include_timestamps /\ is_empty),
           FrameFile("parquet", DataOf(include_timestamps), None))

\* get_db_info(): the file exists once a manager was constructed.
call_get_db_info ==
    Query("get_db_info", 0, [exists |-> TRUE, count |-> get_stats.count])

\* The stores that are exported: at most MaxExportRows rows, added at
\* different seconds.
ExportStores ==
    {{Row(n, n % (MaxClock + 1)) : n \in S}
       : S \in {T \in SUBSET (1..MaxExportValue)
                   : Cardinality(T) <= MaxExportRows}}

\* pandas was imported, or the import failed and pd is None.
ExportInit ==
    /\ table_exists = TRUE
    /\ numbers \in ExportStores
    /\ now = MaxClock
    /\ last = Call("init_database", 0, "none", FALSE)
    /\ conn = [p \in Procs |-> Idle]
    /\ lock = 0
    /\ run \in {[pc |-> "none", pandas |-> b] : b \in BOOLEAN}
    /\ file = NoFile

ExportNext ==
    \/ \E n \in Inputs : call_has_number(n)
    \/ call_get_all_numbers
    \/ call_get_numbers_with_timestamps
    \/ call_get_stats
    \/ call_is_empty
    \/ call_get_db_info
    \/ \E t, ok \in BOOLEAN : export_to_csv(t, ok)
    \/ \E t, ok \in BOOLEAN : export_to_tsv(t, ok)
    \/ \E t, ok \in BOOLEAN : export_to_json(t, ok)
    \/ \E ok \in BOOLEAN : export_to_pickle(ok)
    \/ \E t, ok \in BOOLEAN : export_to_excel(t, ok)
    \/ \E t, ok \in BOOLEAN : export_to_parquet(t, ok)

ExportSpec == ExportInit /\ [][ExportNext]_vars

\* ------------------------------------------------------- the clear command
\* numlist clear [--force] of the CLI and the clear command of the REPL.
\* run.prior is kept for the record: the table the command found.

\* str.lower() of the answers and the command words that are typed here.
Lower(s) ==
    CASE s = "YES" -> "yes"
      [] s = "Yes" -> "yes"
      [] s = "Y"   -> "y"
      [] s = "NO"  -> "no"
      [] s = "N"   -> "n"
      [] s = "QUIT" -> "quit"
      [] s = "Exit" -> "exit"
      [] s = "REMOVE" -> "remove"
      [] s = "Clear" -> "clear"
      [] s = "Stats" -> "stats"
      [] OTHER     -> s

\* What is typed at the prompt of the REPL.
Answers == {"yes", "y", "YES", "Yes", "Y", "no", "n", "NO", "N", "",
            " yes", "yes please", "ok"}

\* A prompt that takes every answer but no for a yes.
ConfirmedUnlessNo(answer) == Lower(answer) # "no"

\* The REPL's test of the answer: confirm in ["yes", "y"].
Confirmed(answer) == Lower(answer) \in {"yes", "y"}

\* The command as it starts: ui is "cli" or "repl"; only the CLI has --force.
ClearRun(ui, force) ==
    [pc |-> "start", ui |-> ui, force |-> force, prompted |-> FALSE,
     answer |-> "", confirm |-> FALSE, outcome |-> "none", prior |-> numbers]

ClearInit ==
    /\ table_exists = TRUE
    /\ numbers \in {StoreOf(S) : S \in SUBSET (1..MaxValue)}
    /\ now = 0
    /\ last = Call("init_database", 0, "none", FALSE)
    /\ conn = [p \in Procs |-> Idle]
    /\ lock = 0
    /\ run \in {ClearRun("cli", f) : f \in BOOLEAN} \cup {ClearRun("repl", FALSE)}
    /\ file = NoFile

\* manager.clear_all() and the message: ok is whether the DELETE went
\* through (clear_all returns False when it raised).
ClearAll(ok) ==
    LET del == DeleteAll(numbers)
    IN  /\ numbers' = IF ok THEN del.rows ELSE numbers
        /\ last' = [Call("clear_all", 0, "none", ok)
                      EXCEPT !.rowcount = IF ok THEN del.rowcount ELSE 0]

\* The command up to its prompt: an empty list ends it, --force goes
\* straight to clear_all.
clear_start(ok) ==
    /\ run.pc = "start"
    /\ IF is_empty
       THEN /\ run' = [run EXCEPT !.pc = "done", !.outcome = "already_empty"]
            /\ UNCHANGED <<numbers, last>>
       ELSE IF run.ui = "cli" /\ run.force
       THEN /\ ClearAll(ok)
            /\ run' = [run EXCEPT !.pc = "done",
                          !.outcome = IF ok THEN "cleared" ELSE "error"]
       ELSE /\ run' = [run EXCEPT !.pc = "prompt", !.prompted = TRUE]
            /\ UNCHANGED <<numbers, last>>
    /\ UNCHANGED <<table_exists, now, conn, lock, file>>

\* typer.confirm returns the user's choice.
cli_confirm(confirm, ok) ==
    /\ run.pc = "prompt"
    /\ run.ui = "cli"
    /\ IF ~confirm
       THEN /\ run' = [run EXCEPT !.pc = "done", !.confirm = confirm,
                                  !.outcome = "cancelled"]
            /\ UNCHANGED <<numbers, last>>
       ELSE /\ ClearAll(ok)
            /\ run' = [run EXCEPT !.pc = "done", !.confirm = confirm,
                          !.outcome = IF ok THEN "cleared" ELSE "error"]
    /\ UNCHANGED <<table_exists, now, conn, lock, file>>

\* prompt(...) returns the line that was typed.
repl_confirm(answer, ok) ==
    /\ run.pc = "prompt"
    /\ run.ui = "repl"
    /\ IF Confirmed(answer)
       THEN /\ ClearAll(ok)
            /\ run' = [run EXCEPT !.pc = "done", !.answer = answer,
                          !.outcome = IF ok THEN "cleared" ELSE "error"]
       ELSE /\ run' = [run EXCEPT !.pc = "done", !.answer = answer,
                                  !.outcome = "cancelled"]
            /\ UNCHANGED <<numbers, last>>
    /\ UNCHANGED <<table_exists, now, conn, lock, file>>

\* Ctrl-C or the end of the input at the prompt: the command is left.
confirm_interrupted ==
    /\ run.pc = "prompt"
    /\ run' = [run EXCEPT !.pc = "done", !.outcome = "interrupted"]
    /\ UNCHANGED <<table_exists, numbers, now, last, conn, lock, file>>

ClearNext ==
    \/ \E ok \in BOOLEAN : clear_start(ok)
    \/ \E confirm, ok \in BOOLEAN : cli_confirm(confirm, ok)
    \/ \E answer \in Answers, ok \in BOOLEAN : repl_confirm(answer, ok)
    \/ confirm_interrupted

ClearSpec == ClearInit /\ [][ClearNext]_vars

\* ------------------------------------------------------------------ the REPL
\* run_repl's loop.  A line is the list of its words (the line stripped and
\* split at its blanks); a word is a command word (text) or a sequence of
\* typed characters (chars).

Word(text, chars) == [text |-> text, chars |-> chars]

\* The characters that are typed: digits, a sign, a point, a letter and
\* the start of a tag.
Keys == {"0", "1", "-", ".", "x", "<"}

CommandWords ==
    {"quit", "QUIT", "Exit", "exit", "help", "stats", "Stats", "list",
     "history", "remove", "REMOVE", "clear", "Clear"}

Words ==
    {Word(k, <<>>) : k \in CommandWords}
      \cup {Word("", cs) : cs \in UNION {[1..k -> Keys] : k \in 1..2}}

\* The lines that are typed: the empty line, one word, remove with an
\* argument, and some lines of more words.
Lines ==
    {<<>>}
      \cup {<<w>> : w \in Words}
      \cup {<<Word(k, <<>>), w>> : k \in {"remove", "REMOVE"}, w \in Words}
      \cup {<<Word("remove", <<>>), Word("", <<"1">>), Word("", <<"1">>)>>,
            <<Word("", <<"1">>), Word("", <<"0">>)>>,
            <<Word("stats", <<>>), Word("", <<"1">>)>>}

\* What comes back from the prompt of the clear command: an answer, Ctrl-C
\* or Ctrl-D.
ConfirmKeys == Answers \cup {"^C", "^D"}

DigitChars == <<"0", "1", "2", "3", "4", "5", "6", "7", "8", "9">>

IsDigit(c) == \E i \in 1..Len(DigitChars) : DigitChars[i] = c

DigitValue(c) == (CHOOSE i \in 1..Len(DigitChars) : DigitChars[i] = c) - 1

\* The digits of a typed number, without its sign.
Unsigned(cs) == IF Len(cs) > 0 /\ cs[1] = "-" THEN Tail(cs) ELSE cs

\* Whether int(w) returns: a sign at most, then digits.
IsInt(w) ==
    /\ w.text = ""
    /\ Len(Unsigned(w.chars)) > 0
    /\ \A i \in 1..Len(Unsigned(w.chars)) : IsDigit(Unsigned(w.chars)[i])

\* int(w).
IntOf(w) ==
    LET digits == [i \in 1..Len(Unsigned(w.chars)) |->
                     DigitValue(Unsigned(w.chars)[i])]
    IN  IF w.chars[1] = "-" THEN 0 - FromDecimal(digits)
        ELSE FromDecimal(digits)

\* "." in the text.
HasDot(line) ==
    \E i \in 1..Len(line) : \E j \in 1..Len(line[i].chars) :
        line[i].chars[j] = "."

\* HTML(...) of a message that quotes the text raises when the text is
\* not well-formed markup.
BadMarkup(line) ==
    \E i \in 1..Len(line) : \E j \in 1..Len(line[i].chars) :
        line[i].chars[j] = "<"

Result(outcome, rows) == [outcome |-> outcome, rows |-> rows]

\* handle_remove_command; err is whether the storage raises.
HandleRemove(line, err, rows) ==
    IF Len(line) # 2 THEN Result("usage", rows)
    ELSE IF ~IsInt(line[2])
    THEN IF BadMarkup(<<line[2]>>) THEN Result("unexpected_error", rows)
         ELSE Result("invalid_number", rows)
    ELSE IF IntOf(line[2]) <= 0 THEN Result("not_positive", rows)
    ELSE IF err THEN Result("unexpected_error", rows)
    ELSE LET del == Delete(rows, IntOf(line[2]))
         IN  IF del.rowcount > 0 THEN Result("removed", del.rows)
             ELSE Result("not_in_list", del.rows)

\* handle_clear_command; err is whether clear_all fails.
HandleClear(answer, err, rows) ==
    IF Cardinality(rows) = 0 THEN Result("already_empty", rows)
    ELSE IF answer = "^C" THEN Result("interrupted", rows)
    ELSE IF answer = "^D" THEN Result("eof", rows)
    ELSE IF Confirmed(answer)
    THEN IF err THEN Result("clear_error", rows)
         ELSE Result("cleared", DeleteAll(rows).rows)
    ELSE Result("cancelled", rows)

\* validate_and_add_number; err is whether the storage raises.
ValidateAndAdd(line, err, rows, t) ==
    IF HasDot(line)
    THEN IF BadMarkup(line) THEN Result("unexpected_error", rows)
         ELSE Result("decimal", rows)
    ELSE IF Len(line) # 1 \/ ~IsInt(line[1])
    THEN IF BadMarkup(line) THEN Result("unexpected_error", rows)
         ELSE Result("invalid_input", rows)
    ELSE IF IntOf(line[1]) <= 0 THEN Result("not_positive", rows)
    ELSE IF err THEN Result("unexpected_error", rows)
    ELSE LET res == AddNumber(rows, IntOf(line[1]), t)
         IN  IF res.ret THEN Result("added", res.rows)
             ELSE Result("duplicate", res.rows)

\* The body of the loop for one line.
Handle(line, answer, err, rows, t) ==
    IF Len(line) = 0 THEN Result("blank", rows)
    ELSE LET command == Lower(line[1].text)
         IN  IF Len(line) = 1 /\ command \in {"quit", "exit"}
             THEN Result("goodbye", rows)
             ELSE IF Len(line) = 1 /\ command = "help"
             THEN Result("shown", rows)
             ELSE IF Len(line) = 1 /\ command \in {"stats", "list", "history"}
             THEN IF err THEN Result("unexpected_error", rows)
                  ELSE Result("shown", rows)
             ELSE IF Len(line) >= 2 /\ command = "remove"
             THEN HandleRemove(line, err, rows)
             ELSE IF Len(line) = 1 /\ command = "clear"
             THEN HandleClear(answer, err, rows)
             ELSE ValidateAndAdd(line, err, rows, t)

\* A loop that has no except Exception.
ContinuesUnlessError(outcome) ==
    outcome \notin {"goodbye", "eof", "unexpected_error"}

\* Whether the loop goes on: break leaves it, after quit or exit and in
\* except EOFError.
Continues(outcome) == outcome \notin {"goodbye", "eof"}

ReplRun(pc, line, answer, outcome) ==
    [pc |-> pc, line |-> line, answer |-> answer, outcome |-> outcome]

\* run_repl has constructed its manager and shows its first prompt.
ReplInit ==
    /\ table_exists = TRUE
    /\ numbers = CreateTableIfNotExists(FALSE, {})
    /\ now = 0
    /\ last = Call("init_database", 0, "none", FALSE)
    /\ conn = [p \in Procs |-> Idle]
    /\ lock = 0
    /\ run = ReplRun("prompt", <<>>, "", "none")
    /\ file = NoFile

\* A line is entered and handled; answer is what the clear command is
\* told at its prompt.
repl_line(line, answer, err) ==
    /\ run.pc = "prompt"
    /\ LET res == Handle(line, answer, err, numbers, now)
       IN  /\ numbers' = res.rows
           /\ run' = ReplRun(IF Continues(res.outcome) THEN "prompt"
                              ELSE "done",
                              line, answer, res.outcome)
    /\ UNCHANGED <<table_exists, now, last, conn, lock, file>>

\* Ctrl-C at the prompt: KeyboardInterrupt.
repl_interrupt ==
    /\ run.pc = "prompt"
    /\ run' = ReplRun(IF Continues("interrupted") THEN "prompt" ELSE "done",
                       <<>>, "", "interrupted")
    /\ UNCHANGED <<table_exists, numbers, now, last, conn, lock, file>>

\* Ctrl-D at the prompt, or the input has ended: EOFError.
repl_eof ==
    /\ run.pc = "prompt"
    /\ run' = ReplRun(IF Continues("eof") THEN "prompt" ELSE "done",
                       <<>>, "", "eof")
    /\ UNCHANGED <<table_exists, numbers, now, last, conn, lock, file>>

ReplNext ==
    \/ \E line \in Lines, err \in BOOLEAN :
          \E answer \in IF line \in {<<Word("clear", <<>>)>>,
                                       <<Word("Clear", <<>>)>>}
                         THEN ConfirmKeys ELSE {""} :
              repl_line(line, answer, err)
    \/ repl_interrupt
    \/ repl_eof

ReplSpec == ReplInit /\ [][ReplNext]_vars

\* ------------------------------------------- an export and another caller
\* export_to_json and export_to_pickle step by step: each query they make
\* opens its own connection and reads the table as it is committed then.
\* Between two queries another process may run add_number or remove_number
\* on the same file; here each other process makes one call.

\* The export that is in progress: what it has read so far.
Exporting(pc, format, include_timestamps, nums, nums_ts) ==
    [pc |-> pc, format |-> format, include_timestamps |-> include_timestamps,
     numbers |-> nums, numbers_with_timestamps |-> nums_ts]

ExportConcInit ==
    /\ table_exists = TRUE
    /\ numbers \in {StoreOf(S) : S \in SUBSET (1..MaxValue)}
    /\ now = 0
    /\ last = Call("init_database", 0, "none", FALSE)
    /\ conn = [p \in Procs |-> Idle]
    /\ lock = 0
    /\ run \in {Exporting("numbers", "json", t, <<>>, <<>>) : t \in BOOLEAN}
               \cup {Exporting("numbers", "pickle", FALSE, <<>>, <<>>)}
    /\ file = NoFile

\* The first query: "numbers" of the dictionary.
x_read_numbers ==
    /\ run.pc = "numbers"
    /\ run' = [run EXCEPT
                 !.pc = IF run.format = "pickle" THEN "timestamps" ELSE "stats",
                 !.numbers = DataOf(run.include_timestamps)]
    /\ UNCHANGED <<table_exists, numbers, now, last, conn, lock, file>>

\* The second query of export_to_pickle: "numbers_with_timestamps".
x_read_timestamps ==
    /\ run.pc = "timestamps"
    /\ run' = [run EXCEPT !.pc = "stats",
                          !.numbers_with_timestamps =
                              get_numbers_with_timestamps]
    /\ UNCHANGED <<table_exists, numbers, now, last, conn, lock, file>>

\* The last query, "stats", and the dump of the dictionary.
x_read_stats_and_dump ==
    /\ run.pc = "stats"
    /\ file' = IF run.format = "json"
               THEN JsonFile(run.include_timestamps, run.numbers, get_stats)
               ELSE PickleFile(run.numbers, run.numbers_with_timestamps,
                               get_stats)
    /\ run' = [run EXCEPT !.pc = "done"]
    /\ UNCHANGED <<table_exists, numbers, now, last, conn, lock>>

\* Another process calls add_number(n): the call as a whole, committed.
o_add_number(p, n) ==
    /\ conn[p].pc = "idle"
    /\ LET res == AddNumber(numbers, n, now)
       IN  /\ numbers' = res.rows
           /\ conn' = [conn EXCEPT ![p] =
                  [Idle EXCEPT !.pc = "done", !.arg = n, !.exc = res.exc,
                               !.ret = res.ret]]
    /\ UNCHANGED <<table_exists, now, last, lock, run, file>>

\* Another process calls remove_number(n): the call as a whole, committed.
o_remove_number(p, n) ==
    /\ conn[p].pc = "idle"
    /\ LET del == Delete(numbers, n)
       IN  /\ numbers' = del.rows
           /\ conn' = [conn EXCEPT ![p] =
                  [Idle EXCEPT !.pc = "done", !.arg = n,
                               !.ret = del.rowcount > 0]]
    /\ UNCHANGED <<table_exists, now, last, lock, run, file>>

ExportConcNext ==
    \/ x_read_numbers
    \/ x_read_timestamps
    \/ x_read_stats_and_dump
    \/ \E p \in Procs, n \in Inputs : o_add_number(p, n)
    \/ \E p \in Procs, n \in Inputs : o_remove_number(p, n)

ExportConcSpec == ExportConcInit /\ [][ExportConcNext]_vars

\* ------------------------------------------------------------ the properties

\* The values the store holds.
Values == {r.number : r \in numbers}

\* The last call was op and it returned.  Every action records itself in
\* last, so a step that changes the state and ends with last'.op = op is a
\* call of op.
Returned(op) == last.op = op /\ last.exc = "none"

\* C1: for every positive n, after add(n) has returned true contains(n) is
\* true, and an add(n) of a number that is in the store (the second add)
\* returns false and leaves the table, the added_at of n included, as it was.
C1_AddTwice ==
    /\ [](Returned("add_number") /\ last.ret = TRUE
            => last.arg > 0 /\ has_number(last.arg))
    /\ [][\A n \in Inputs :
            n > 0 /\ has_number(n) /\ last'.op = "add_number" /\ last'.arg = n
                => /\ last'.exc = "none"
                   /\ last'.ret = FALSE
                   /\ numbers' = numbers]_vars

\* The second add of a number whose entry is older than the present second.
C1_Witness ==
    /\ Returned("add_number")
    /\ last.ret = FALSE
    /\ has_number(last.arg)
    /\ AddedAt(numbers, last.arg) < now

\* C2: for every n <= 0, add(n) raises ValueError and the table is the same
\* before and after the call.
C2_AddInvalid ==
    /\ [](last.op = "add_number" /\ last.arg <= 0 => last.exc = "ValueError")
    /\ [][last'.op = "add_number" /\ last'.arg <= 0
            => numbers' = numbers /\ table_exists' = table_exists]_vars

\* add of a number <= 0 was refused on a store that holds entries.
C2_Witness ==
    /\ last.op = "add_number"
    /\ last.arg <= 0
    /\ last.exc = "ValueError"
    /\ numbers # {}

\* C3: for every integer n, the n <= 0 included, remove(n) raises nothing;
\* when n is absent it returns false and leaves the table as it was, when n
\* is present it returns true and contains(n) is false afterwards.
C3_Remove ==
    [][\A n \in Inputs :
        last'.op = "remove_number" /\ last'.arg = n
            => /\ last'.exc = "none"
               /\ IF has_number(n)
                  THEN last'.ret = TRUE /\ ~has_number(n)'
                  ELSE last'.ret = FALSE /\ numbers' = numbers]_vars

\* A present number was removed while other entries stay.
C3_Witness ==
    /\ Returned("remove_number")
    /\ last.ret = TRUE
    /\ ~has_number(last.arg)
    /\ numbers # {}

\* C4: in every state add, remove and clear lead to, no two rows share a
\* number, and list_all() is strictly ascending, without duplicates, and
\* holds exactly the stored values.
C4_ListAscending ==
    /\ \A r, q \in numbers : r.number = q.number => r = q
    /\ \A i \in 1..(Len(get_all_numbers) - 1) :
           get_all_numbers[i] < get_all_numbers[i + 1]
    /\ {get_all_numbers[i] : i \in 1..Len(get_all_numbers)} = Values
    /\ Returned("get_all_numbers") => last.ret = get_all_numbers

\* list_all() was called on a store whose insertion order is not the order
\* of the values.
C4_Witness ==
    /\ Returned("get_all_numbers")
    /\ Len(last.ret) >= 3
    /\ \E r, q \in numbers : r.number < q.number /\ r.added_at > q.added_at

\* C5: stats() of an empty store is count 0 with min, max, sum and average
\* None; of a store that is not empty it is the count, the minimum, the
\* maximum, the sum and the mean of the stored values; the store reached by
\* adding 3, 1, 4, 1, 5 holds 1, 3, 4, 5 and its stats are 4, 1, 5, 13, 3.25.
C5_Stats ==
    Returned("get_stats") =>
        LET st == last.ret
        IN  /\ st.count = Cardinality(Values)
            /\ Values = {} =>
                   /\ st.min = None /\ st.max = None
                   /\ st.sum = None /\ st.average = None
            /\ Values # {} =>
                   /\ Len(st.min) = 1 /\ st.min[1] \in Values
                   /\ \A v \in Values : st.min[1] <= v
                   /\ Len(st.max) = 1 /\ st.max[1] \in Values
                   /\ \A v \in Values : st.max[1] >= v
                   /\ st.sum = Some(SumOf(numbers))
                   /\ Len(st.average) = 1
                   /\ st.average[1].den > 0
                   /\ st.average[1].num * st.count
                          = st.sum[1] * st.average[1].den
            /\ Values = {1, 3, 4, 5} =>
                   st = [count |-> 4, min |-> Some(1), max |-> Some(5),
                         sum |-> Some(13),
                         average |-> Some([num |-> 13, den |-> 4])]

\* stats() was called on the store that holds 1, 3, 4 and 5.
C5_Witness ==
    /\ Returned("get_stats")
    /\ Values = {1, 3, 4, 5}
    /\ last.ret.count = 4

C7_Positive == \A r \in numbers : r.number > 0

\* The store is full when a manager is constructed on it once more.
C7_Witness ==
    /\ last.op = "init_database"
    /\ Values = 1..MaxValue

\* C8, as the specification states it: no step changes the added_at of an
\* entry that stays, and the entry of a value that was removed and is added
\* again has a timestamp other than that of the removed entry.
C8_NewTimestampDiffers ==
    /\ [][\A r \in numbers : HasKey(numbers', r.number) => r \in numbers']_vars
    /\ [](Returned("add_number") /\ last.ret = TRUE /\ last.prior # None
            => AddedAt(numbers, last.arg) # last.prior[1])

\* C8, amended: no step changes the added_at of an entry that stays, and
\* only add_number makes an entry; the added_at of an entry is the second in
\* which it was inserted, so that of a value removed and added again is the
\* second of the second insertion, whatever the removed entry carried.
C8_AddedAtIsInsertionTime ==
    /\ [][\A r \in numbers : HasKey(numbers', r.number) => r \in numbers']_vars
    /\ [][\A r \in numbers' \ numbers :
             /\ r.added_at = now
             /\ last'.op = "add_number" /\ last'.arg = r.number]_vars
    /\ [](Returned("add_number") /\ last.ret = TRUE /\ last.prior # None
            => AddedAt(numbers, last.arg) = now)

\* A value was removed and added again in a later second.
C8_Witness ==
    /\ Returned("add_number")
    /\ last.ret = TRUE
    /\ last.prior # None
    /\ AddedAt(numbers, last.arg) > last.prior[1]

\* C9: constructing a manager on a file that holds the table leaves every
\* row as it was, and every query returns what it returned before.
C9_Restart ==
    [][last'.op = "init_database"
        => /\ numbers' = numbers
           /\ table_exists' = table_exists
           /\ get_all_numbers' = get_all_numbers
           /\ get_stats' = get_stats
           /\ is_empty' = is_empty
           /\ \A n \in Inputs : has_number(n)' = has_number(n)]_vars

\* A manager was constructed on a store with an entry of an earlier second.
C9_Witness ==
    /\ last.op = "init_database"
    /\ \E r \in numbers : r.added_at < now

\* Both callers have finished an add_number of the same positive number,
\* which was absent when each of them called.
SameAbsentNumber ==
    /\ \A p \in Procs : conn[p].pc = "done" /\ conn[p].fresh
    /\ conn[1].arg = conn[2].arg
    /\ conn[1].arg > 0

ReturnedTrue(p) == conn[p].exc = "none" /\ conn[p].ret = TRUE

ReturnedFalse(p) == conn[p].exc = "none" /\ conn[p].ret = FALSE

\* C10, as the specification states it: of two concurrent add(n) of the same
\* absent n, exactly one returns true, the other returns false, and the
\* store ends with exactly one entry for n.
C10_OneTrueOneFalse ==
    SameAbsentNumber =>
        /\ \E p, q \in Procs :
               p # q /\ ReturnedTrue(p) /\ ReturnedFalse(q)
        /\ Cardinality({r \in numbers : r.number = conn[1].arg}) = 1

\* C10, amended: exactly one of the two returns true, the other returns
\* false or raises OperationalError (the database is locked), and the store
\* ends with exactly one entry for n.
C10_OneTrueOtherNot ==
    SameAbsentNumber =>
        /\ \E p, q \in Procs :
               /\ p # q
               /\ ReturnedTrue(p)
               /\ ReturnedFalse(q) \/ conn[q].exc = "OperationalError"
        /\ Cardinality({r \in numbers : r.number = conn[1].arg}) = 1

\* Two overlapping add(n) of an absent n: one returned true, one false.
C10_Witness ==
    /\ SameAbsentNumber
    /\ \E p, q \in Procs : ReturnedTrue(p) /\ ReturnedFalse(q)

\* C14: list_with_timestamps() holds one (value, added_at) pair for each
\* stored entry, in ascending order of value, and its values are list_all()
\* of the same state, whatever the order of insertion.
C14_ListWithTimestamps ==
    LET pairs == get_numbers_with_timestamps
    IN  /\ Len(pairs) = Cardinality(numbers)
        /\ {pairs[i] : i \in 1..Len(pairs)} = numbers
        /\ \A i \in 1..(Len(pairs) - 1) : pairs[i].number < pairs[i + 1].number
        /\ [i \in 1..Len(pairs) |-> pairs[i].number] = get_all_numbers
        /\ Returned("get_numbers_with_timestamps") => last.ret = pairs

\* list_with_timestamps() was called on a store whose latest entry is not
\* the one of the largest value.
C14_Witness ==
    /\ Returned("get_numbers_with_timestamps")
    /\ Len(last.ret) >= 2
    /\ last.ret[1].added_at > last.ret[Len(last.ret)].added_at

\* The rows of the values other than n.
Others(rows, n) == {r \in rows : r.number # n}

\* C18: add(n) and remove(n) leave the entry of every value other than n as
\* it was, its added_at included, whether they return true or false.
C18_OthersUntouched ==
    [][\A n \in Inputs :
        last'.op \in {"add_number", "remove_number"} /\ last'.arg = n
            => Others(numbers', n) = Others(numbers, n)]_vars

\* A value was removed from between a smaller and a larger one, which stay.
C18_Witness ==
    /\ Returned("remove_number")
    /\ last.ret = TRUE
    /\ \E r, q \in numbers : r.number < last.arg /\ last.arg < q.number

\* C11: every write is one atomic commit.  The table of the file changes
\* only by the commit of an operation, which applies the whole effect of its
\* statement and then returns; an operation that raises (ValueError or the
\* storage error) or whose process dies leaves the table as last committed;
\* clear() leaves the table whole or empty, never a part of it.
C11_AtomicCommit ==
    /\ [](last.exc \in {"none", "ValueError", "sqlite3.Error"})
    /\ [][numbers' # numbers
            => /\ run.pc = "open" /\ run'.pc = "idle"
               /\ numbers' = run.work
               /\ last'.op = run.op /\ last'.exc = "none"
               /\ last'.ret = TRUE]_vars
    /\ [][run.pc = "open" /\ run'.pc = "idle"
          /\ (last'.exc # "none" \/ last'.op = "crash" \/ last'.ret = FALSE)
            => numbers' = numbers]_vars
    /\ [][run.op = "clear_all" => numbers' \in {numbers, {}}]_vars

\* clear() failed on a store of several entries, which are all still there.
C11_Witness ==
    /\ last.op = "clear_all"
    /\ last.ret = FALSE
    /\ Cardinality(numbers) >= 2
    /\ run.pc = "idle"

NotPositive(x) == x <= 0

\* Whether x is in the sequence s.
InSeq(s, x) == \E i \in 1..Len(s) : s[i] = x

ReadBack(f) ==
    CASE f.format \in {"csv", "tsv"} ->
           [i \in 1..Len(f.lines) |-> FromDecimal(f.lines[i][1])]
      [] f.format = "json" ->
           IF f.include_timestamps
           THEN [i \in 1..Len(f.numbers) |-> FromDecimal(f.numbers[i].number)]
           ELSE [i \in 1..Len(f.numbers) |-> FromDecimal(f.numbers[i])]
      [] f.format = "pickle" -> f.numbers

RoundTripOps ==
    {"export_to_csv", "export_to_tsv", "export_to_json", "export_to_pickle"}

\* C13: the file that a CSV, TSV, JSON or pickle export has written reads
\* back as the sequence get_all_numbers() returns at the export: the
\* numbers, ascending.
C13_RoundTrip ==
    [][last'.op \in RoundTripOps /\ last'.ret = TRUE
         => ReadBack(file') = get_all_numbers]_vars

\* A JSON export with timestamps of two numbers, one of two digits.
C13_Witness ==
    /\ last.op = "export_to_json"
    /\ last.ret = TRUE
    /\ file.format = "json"
    /\ file.include_timestamps
    /\ Len(file.numbers) = 2
    /\ \E r \in numbers : r.number >= 10

ReadOnlyOps ==
    {"has_number", "get_all_numbers", "get_numbers_with_timestamps",
     "get_stats", "is_empty", "get_db_info", "export_to_csv",
     "export_to_tsv", "export_to_json", "export_to_pickle",
     "export_to_excel", "export_to_parquet"}

\* C17: a query or an export leaves the table as it was: the same rows,
\* each with its added_at.
C17_ReadOnly ==
    [][last'.op \in ReadOnlyOps => numbers' = numbers]_vars

\* An export of a table that holds rows has written its file.
C17_Witness ==
    /\ last.op = "export_to_parquet"
    /\ last.ret = TRUE
    /\ file.format = "parquet"
    /\ Cardinality(numbers) = MaxExportRows

\* The answers that say yes, whatever their case.
YesAnswers == {"yes", "y", "YES", "Yes", "Y"}

\* The user of the command in r said yes at its prompt.
SaidYes(r) ==
    /\ r.prompted
    /\ \/ r.ui = "cli" /\ r.confirm
       \/ r.ui = "repl" /\ r.answer \in YesAnswers

\* C15: the clear command changes the table only by emptying it, and only
\* when --force was given or the prompt was answered with yes; an answer
\* that declines leaves the table as it was; on an empty table no prompt
\* is shown and nothing is deleted; the prompt is skipped only by --force.
C15_ClearConfirmed ==
    /\ [][numbers' # numbers
            => /\ numbers' = {}
               /\ run.force \/ SaidYes(run')]_vars
    /\ [][run.pc = "prompt" /\ run'.pc = "done" /\ ~SaidYes(run')
            => numbers' = numbers]_vars
    /\ [](run.prior = {} => ~run.prompted /\ numbers = {})
    /\ [](run.pc = "done" /\ run.prior # {} /\ ~run.force => run.prompted)
    /\ [](run.outcome = "cleared" => numbers = {})
    /\ [](run.outcome \in {"cancelled", "interrupted", "error",
                            "already_empty"} => numbers = run.prior)

\* The REPL's prompt was answered YES and the rows are gone.
C15_Witness ==
    /\ run.pc = "done"
    /\ run.ui = "repl"
    /\ run.answer = "YES"
    /\ run.prior # {}
    /\ numbers = {}

\* The lines that leave the REPL.
QuitLines == {<<Word(k, <<>>)>> : k \in {"quit", "QUIT", "exit", "Exit"}}

\* What the REPL answers to a bad input, a command that failed, an
\* exception or Ctrl-C.
FailedOutcomes ==
    {"usage", "invalid_number", "not_positive", "not_in_list", "decimal",
     "invalid_input", "duplicate", "clear_error", "unexpected_error",
     "interrupted"}

\* C16: the REPL stops only for quit, exit or the end of the input; after
\* an invalid input, a command that failed, an unexpected exception or
\* Ctrl-C it is at its prompt again and the table is as it was; the table
\* changes only by a number that was added, a number that was removed or
\* a clear that was confirmed.
C16_ReplGoesOn ==
    /\ [](run.pc = "done"
            => \/ run.outcome = "goodbye" /\ run.line \in QuitLines
               \/ run.outcome = "eof")
    /\ [][run'.outcome \in FailedOutcomes
            => numbers' = numbers /\ run'.pc = "prompt"]_vars
    /\ [][numbers' # numbers
            => run'.outcome \in {"added", "removed", "cleared"}]_vars
    /\ [](run.line \in QuitLines => run.pc = "done")

\* After a line that raised an unexpected exception the REPL is at its
\* prompt, with the numbers it held.
C16_Witness ==
    /\ run.pc = "prompt"
    /\ run.outcome = "unexpected_error"
    /\ BadMarkup(run.line)
    /\ Cardinality(numbers) >= 2

RECURSIVE SeqSum(_)
\* The sum of a sequence of integers.
SeqSum(s) == IF Len(s) = 0 THEN 0 ELSE s[1] + SeqSum(Tail(s))

\* The stats of the list L of numbers, as get_stats() gives them.
StatsOfList(L) ==
    LET S == {L[i] : i \in 1..Len(L)}
    IN  IF Len(L) = 0
        THEN [count |-> 0, min |-> None, max |-> None, sum |-> None]
        ELSE [count |-> Len(L),
              min |-> Some(CHOOSE m \in S : \A x \in S : m <= x),
              max |-> Some(CHOOSE m \in S : \A x \in S : m >= x),
              sum |-> Some(SeqSum(L))]

\* C19: in the file of a JSON or pickle export, stats.count is the length
\* of the numbers list, and stats.min, stats.max and stats.sum are the
\* minimum, the maximum and the sum of that list, also when another
\* caller adds or removes numbers while the export runs.
C19_ConsistentSnapshot ==
    file.format \in {"json", "pickle"} =>
        LET want == StatsOfList(ReadBack(file))
        IN  /\ file.stats.count = want.count
            /\ file.stats.min = want.min
            /\ file.stats.max = want.max
            /\ file.stats.sum = want.sum
====
